---- MODULE Spec2Model ----
(***************************************************************************)
(* Model of visits_per_week.py: an access log (one line per passage) is    *)
(* bucketed per ISO week and per day, aggregated into per-user, per-week   *)
(* day counts and written as a report.                                     *)
(*                                                                         *)
(* Texts (Python str) are sequences of one-character strings, so that      *)
(* split, strip, rfind, int(), str() and join are modelled by what they    *)
(* do.  Python dicts are sequences of entries in insertion order; Python   *)
(* sets are sets, iterated in an arbitrary order.                          *)
(***************************************************************************)
EXTENDS Integers, Sequences, FiniteSets, TLC

VARIABLES
    separator,              \* args.separator
    file,                   \* the lines of the input file, header first
    pc,                     \* position of main()
    line_number,            \* loop variable of the reading loop: <<>> is unbound
    columns,                \* result of the last line.split
    week_set,               \* WeekSet.weeks: dict identifier -> Week
    headers,                \* list of header cells
    user_to_week_to_count,  \* dict User -> dict Week -> Counter
    agg,                    \* position of the aggregation loops
    out_opened,             \* the output file has been opened for writing
    output,                 \* lines written to the output file
    description_2,          \* argument of parse_name_and_group
    parse_result,           \* <<>> or <<result of parse_name_and_group>>
    label_week,             \* a Week whose label is asked for
    label_text              \* <<>> or <<result of Week.__str__>>

vars == <<separator, file, pc, line_number, columns, week_set, headers,
          user_to_week_to_count, agg, out_opened, output,
          description_2, parse_result, label_week, label_text>>

mainVars == <<separator, file, pc, line_number, columns, week_set, headers,
              user_to_week_to_count, agg, out_opened, output>>
parseVars == <<description_2, parse_result>>
labelVars == <<label_week, label_text>>

(***************************************************************************)
(* Bounds.                                                                 *)
(***************************************************************************)
MaxLines == 2       \* data lines in the input file
MaxDescLen == 5     \* length of a descriptor given to parse_name_and_group
MaxLabelDays == 2   \* days held by a Week given to Week.__str__

(***************************************************************************)
(* Python str primitives.                                                  *)
(***************************************************************************)
Whitespace == {" ", "\n", "\t"}
DigitChars == {"0", "1", "2", "3", "4", "5", "6", "7", "8", "9"}

DigitVal(c) ==
    CASE c = "0" -> 0 [] c = "1" -> 1 [] c = "2" -> 2 [] c = "3" -> 3
      [] c = "4" -> 4 [] c = "5" -> 5 [] c = "6" -> 6 [] c = "7" -> 7
      [] c = "8" -> 8 [] c = "9" -> 9

DigitChar(n) ==
    CASE n = 0 -> "0" [] n = 1 -> "1" [] n = 2 -> "2" [] n = 3 -> "3"
      [] n = 4 -> "4" [] n = 5 -> "5" [] n = 6 -> "6" [] n = 7 -> "7"
      [] n = 8 -> "8" [] n = 9 -> "9"

\* ord(c) for the characters that occur in names.
Ord(c) ==
    CASE c = "\t" -> 9 [] c = "\n" -> 10 [] c = " " -> 32 [] c = "#" -> 35
      [] c = "+" -> 43 [] c = "," -> 44 [] c = "-" -> 45 [] c = "/" -> 47
      [] c \in DigitChars -> 48 + DigitVal(c)
      [] c = ":" -> 58 [] c = ";" -> 59
      [] c = "A" -> 65 [] c = "B" -> 66 [] c = "_" -> 95
      [] c = "a" -> 97 [] c = "b" -> 98 [] c = "x" -> 120

RECURSIVE LStrip(_)
LStrip(s) ==
    IF s # <<>> /\ Head(s) \in Whitespace THEN LStrip(Tail(s)) ELSE s

RECURSIVE RStrip(_)
RStrip(s) ==
    IF s # <<>> /\ s[Len(s)] \in Whitespace
    THEN RStrip(SubSeq(s, 1, Len(s) - 1)) ELSE s

\* str.strip()
Strip(s) == RStrip(LStrip(s))

RECURSIVE RFindFrom(_, _, _)
RFindFrom(s, c, i) ==
    IF i = 0 THEN -1
    ELSE IF s[i] = c THEN i - 1 ELSE RFindFrom(s, c, i - 1)

\* str.rfind(c): the highest 0-based index of c, or -1.
RFind(s, c) == RFindFrom(s, c, Len(s))

RECURSIVE ScanDigits(_, _, _)
ScanDigits(b, acc, prev) ==
    IF b = <<>> THEN (IF prev = "digit" THEN acc ELSE -1)
    ELSE IF Head(b) \in DigitChars
         THEN ScanDigits(Tail(b), acc * 10 + DigitVal(Head(b)), "digit")
    ELSE IF Head(b) = "_" /\ prev = "digit"
         THEN ScanDigits(Tail(b), acc, "under")
    ELSE -1

\* int(s) for a str: surrounding whitespace is ignored, then an optional
\* sign, then decimal digits which single underscores may separate.
\* Anything else raises ValueError.
IntOf(s) ==
    LET t == Strip(s)
        signed == t # <<>> /\ Head(t) \in {"+", "-"}
        body == IF signed THEN Tail(t) ELSE t
        magnitude == ScanDigits(body, 0, "start")
    IN  IF magnitude < 0
        THEN [raised |-> "ValueError", val |-> 0]
        ELSE [raised |-> "none",
              val |-> IF signed /\ Head(t) = "-" THEN 0 - magnitude
                      ELSE magnitude]

RECURSIVE StrNat(_)
StrNat(n) ==
    IF n < 10 THEN <<DigitChar(n)>>
    ELSE StrNat(n \div 10) \o <<DigitChar(n % 10)>>

\* str(n) for an int.
Str(n) == IF n < 0 THEN <<"-">> \o StrNat(0 - n) ELSE StrNat(n)

RECURSIVE Join(_, _)
\* sep.join(pieces)
Join(sep, pieces) ==
    IF pieces = <<>> THEN <<>>
    ELSE IF Len(pieces) = 1 THEN pieces[1]
    ELSE pieces[1] \o sep \o Join(sep, Tail(pieces))

RECURSIVE SplitFrom(_, _, _)
SplitFrom(s, c, cur) ==
    IF s = <<>> THEN <<cur>>
    ELSE IF Head(s) = c THEN <<cur>> \o SplitFrom(Tail(s), c, <<>>)
    ELSE SplitFrom(Tail(s), c, Append(cur, Head(s)))

\* str.split(c) for a one-character separator c.
Split(s, c) == SplitFrom(s, c, <<>>)

(***************************************************************************)
(* parse_name_and_group                                                    *)
(***************************************************************************)
\* The condition of line 136 with the lower bound made inclusive.
SharpInsideInclusive(index_of_sharp, length) ==
    0 <= index_of_sharp /\ index_of_sharp < length - 1

SharpInside(index_of_sharp, length) ==
    0 < index_of_sharp /\ index_of_sharp < length - 1

\* The result carries the exception that escapes the call, "none" when the
\* call returns.
parse_name_and_group(d) ==
    LET index_of_sharp == RFind(d, "#") IN
    IF SharpInside(index_of_sharp, Len(d))
    THEN LET name == Strip(SubSeq(d, 1, index_of_sharp))
             g == IntOf(SubSeq(d, index_of_sharp + 2, Len(d)))
         IN  IF g.raised = "ValueError"
             THEN [raised |-> "none", name |-> name, group |-> -1]
             ELSE [raised |-> g.raised, name |-> name, group |-> g.val]
    ELSE [raised |-> "none", name |-> d, group |-> -1]

(***************************************************************************)
(* datetime: a record of year, month, day, hour and minute.                *)
(***************************************************************************)
IsLeap(y) == y % 4 = 0 /\ (y % 100 # 0 \/ y % 400 = 0)

DaysInMonth(y, m) ==
    IF m = 2 THEN (IF IsLeap(y) THEN 29 ELSE 28)
    ELSE IF m \in {4, 6, 9, 11} THEN 30 ELSE 31

DaysBeforeYear(y) ==
    (y - 1) * 365 + (y - 1) \div 4 - (y - 1) \div 100 + (y - 1) \div 400

RECURSIVE DaysBeforeMonth(_, _)
DaysBeforeMonth(y, m) ==
    IF m = 1 THEN 0 ELSE DaysBeforeMonth(y, m - 1) + DaysInMonth(y, m - 1)

\* Proleptic Gregorian ordinal of a day, 0001-01-01 being day 1.
Ymd2Ord(y, m, d) == DaysBeforeYear(y) + DaysBeforeMonth(y, m) + d

\* Ordinal of the Monday that starts ISO week 1 of a year.
IsoWeek1Monday(y) ==
    LET firstday == Ymd2Ord(y, 1, 1)
        firstweekday == (firstday + 6) % 7
        week1monday == firstday - firstweekday
    IN  IF firstweekday > 3 THEN week1monday + 7 ELSE week1monday

\* date.isocalendar()[:2], as datetime computes it.
IsoCalendar(date) ==
    LET today == Ymd2Ord(date.year, date.month, date.day)
        week == (today - IsoWeek1Monday(date.year)) \div 7
    IN  IF week < 0
        THEN <<date.year - 1,
               (today - IsoWeek1Monday(date.year - 1)) \div 7 + 1>>
        ELSE IF week >= 52 /\ today >= IsoWeek1Monday(date.year + 1)
        THEN <<date.year + 1, 1>>
        ELSE <<date.year, week + 1>>

\* The calendar year paired with the week number, instead of the ISO year.
CalendarYearWeek(date) == <<date.year, IsoCalendar(date)[2]>>

\* week_identifier of add_passage (line 116).
WeekIdentifier(date) == IsoCalendar(date)

AllDigits(s, a, b) == \A i \in a..b : s[i] \in DigitChars

RECURSIVE Num(_, _, _)
Num(s, a, b) ==
    IF a > b THEN 0 ELSE Num(s, a, b - 1) * 10 + DigitVal(s[b])

\* datetime.fromisoformat(s) for the forms YYYY-MM-DD and YYYY-MM-DD?HH:MM
\* (any single character may separate date and time); every other text of
\* the model raises ValueError.
FromIsoFormat(s) ==
    LET dateOk == /\ Len(s) \in {10, 16}
                  /\ AllDigits(s, 1, 4) /\ s[5] = "-"
                  /\ AllDigits(s, 6, 7) /\ s[8] = "-"
                  /\ AllDigits(s, 9, 10)
                  /\ Num(s, 1, 4) >= 1
                  /\ Num(s, 6, 7) \in 1..12
                  /\ Num(s, 9, 10) \in 1..DaysInMonth(Num(s, 1, 4), Num(s, 6, 7))
        timeOk == \/ Len(s) = 10
                  \/ /\ AllDigits(s, 12, 13) /\ s[14] = ":"
                     /\ AllDigits(s, 15, 16)
                     /\ Num(s, 12, 13) < 24 /\ Num(s, 15, 16) < 60
    IN  IF dateOk /\ timeOk
        THEN [raised |-> "none",
              val |-> [year |-> Num(s, 1, 4), month |-> Num(s, 6, 7),
                       day |-> Num(s, 9, 10),
                       hour |-> IF Len(s) = 10 THEN 0 ELSE Num(s, 12, 13),
                       minute |-> IF Len(s) = 10 THEN 0 ELSE Num(s, 15, 16)]]
        ELSE [raised |-> "ValueError"]

\* datetime.__lt__
DateLt(a, b) ==
    LET ta == <<a.year, a.month, a.day, a.hour, a.minute>>
        tb == <<b.year, b.month, b.day, b.hour, b.minute>>
    IN  \E k \in 1..5 : ta[k] < tb[k] /\ \A j \in 1..(k - 1) : ta[j] = tb[j]

(***************************************************************************)
(* User: name, group and the identity of the object (oid).                 *)
(***************************************************************************)
User(name, group, oid) == [name |-> name, group |-> group, oid |-> oid]

UserIdentifier(u) == <<u.name, u.group>>

\* User.__eq__ (and the hash it agrees with)
UserEq(a, b) == UserIdentifier(a) = UserIdentifier(b)

RECURSIVE StrLt(_, _)
\* str.__lt__: by code point, a proper prefix being smaller.
StrLt(a, b) ==
    IF b = <<>> THEN FALSE
    ELSE IF a = <<>> THEN TRUE
    ELSE IF Head(a) = Head(b) THEN StrLt(Tail(a), Tail(b))
    ELSE Ord(Head(a)) < Ord(Head(b))

\* The groups compared as the texts str(group) instead of as numbers.
UserLtGroupAsText(a, b) ==
    IF a.name # b.name THEN StrLt(a.name, b.name)
    ELSE StrLt(Str(a.group), Str(b.group))

\* User.__lt__: the identifier tuples compared, name first, then group.
UserLt(a, b) ==
    IF a.name # b.name THEN StrLt(a.name, b.name)
    ELSE a.group < b.group

\* set.add using object identity instead of __eq__/__hash__.
SetAddByObject(S, u) == S \cup {u}

\* set.add(u): an element equal to u keeps its place.
SetAdd(S, u) == IF \E v \in S : UserEq(v, u) THEN S ELSE S \cup {u}

(***************************************************************************)
(* Week and WeekSet                                                        *)
(***************************************************************************)
\* Week.__init__
Week(year, number) ==
    [year |-> year, number |-> number, daily_presences |-> <<>>]

WeekIdentifierOf(w) == <<w.year, w.number>>

\* Index of the entry of dict d whose key equals k, 0 when there is none.
KeyIndex(d, k) ==
    IF \E i \in 1..Len(d) : d[i].key = k
    THEN CHOOSE i \in 1..Len(d) : d[i].key = k
    ELSE 0

\* The date kept with its time of day.
PassageDateFull(date) == date

\* passage_date of add_passage (line 123).
PassageDate(date) ==
    [year |-> date.year, month |-> date.month, day |-> date.day,
     hour |-> 0, minute |-> 0]

\* week.daily_presences.setdefault(passage_date, set()).add(user)
RegisterPassage(daily_presences, passage_date, user) ==
    LET i == KeyIndex(daily_presences, passage_date) IN
    IF i = 0
    THEN Append(daily_presences,
                [key |-> passage_date, value |-> SetAdd({}, user)])
    ELSE [daily_presences EXCEPT ![i].value = SetAdd(@, user)]

\* WeekSet.add_passage: the dict self.weeks after the call.
add_passage(weeks, date, user) ==
    LET week_identifier == WeekIdentifier(date)
        i == KeyIndex(weeks, week_identifier)
        withWeek == IF i # 0 THEN weeks
                    ELSE Append(weeks,
                                [key |-> week_identifier,
                                 value |-> Week(week_identifier[1],
                                                week_identifier[2])])
        j == IF i # 0 THEN i ELSE Len(withWeek)
    IN  [withWeek EXCEPT ![j].value.daily_presences =
            RegisterPassage(@, PassageDate(date), user)]

\* Week.__lt__: the identifier tuples compared.
WeekLt(a, b) ==
    \/ a.year < b.year
    \/ a.year = b.year /\ a.number < b.number

RECURSIVE InsertWeek(_, _)
\* Insert w into the sorted list s after the elements that are not greater.
InsertWeek(s, w) ==
    IF s = <<>> THEN <<w>>
    ELSE IF WeekLt(w, Head(s)) THEN <<w>> \o s
    ELSE <<Head(s)>> \o InsertWeek(Tail(s), w)

RECURSIVE SortedWeeks(_)
\* sorted(list of Week): a stable sort that only uses __lt__.
SortedWeeks(s) ==
    IF s = <<>> THEN <<>>
    ELSE InsertWeek(SortedWeeks(SubSeq(s, 1, Len(s) - 1)), s[Len(s)])

DictValues(d) == [i \in 1..Len(d) |-> d[i].value]

\* The weeks in the order in which the dict holds them.
WeekSetIterUnsorted(weeks) == DictValues(weeks)

\* WeekSet.__iter__
WeekSetIter(weeks) == SortedWeeks(DictValues(weeks))

(***************************************************************************)
(* Week.__str__                                                            *)
(***************************************************************************)
DictKeys(d) == {d[i].key : i \in 1..Len(d)}

\* min() and max() of the keys of daily_presences.
MinDate(dp) == CHOOSE d \in DictKeys(dp) : \A e \in DictKeys(dp) : ~DateLt(e, d)
MaxDate(dp) == CHOOSE d \in DictKeys(dp) : \A e \in DictKeys(dp) : ~DateLt(d, e)

DateFields(date) == <<date.year, date.month, date.day>>

StrEach(nums) == [i \in 1..Len(nums) |-> Str(nums[i])]

\* Week.__str__; min() of an empty dict raises ValueError.
WeekStr(week) ==
    LET dp == week.daily_presences IN
    IF Len(dp) = 1
    THEN [raised |-> "none",
          val |-> <<"(", "o", "n", "l", "y", " ">>
                  \o Join(<<"/">>, StrEach(DateFields(dp[1].key)))
                  \o <<")">>]
    ELSE IF Len(dp) = 0 THEN [raised |-> "ValueError"]
    ELSE
    LET min_val == DateFields(MinDate(dp))
        max_val == DateFields(MaxDate(dp))
        same == SelectSeq(<<1, 2, 3>>, LAMBDA k : min_val[k] = max_val[k])
        diff == SelectSeq(<<1, 2, 3>>, LAMBDA k : min_val[k] # max_val[k])
        common_pieces == [i \in 1..Len(same) |-> Str(min_val[same[i]])]
        from_pieces == [i \in 1..Len(diff) |-> Str(min_val[diff[i]])]
        to_pieces == [i \in 1..Len(diff) |-> Str(max_val[diff[i]])]
    IN  [raised |-> "none",
         val |-> <<"(">> \o Join(<<"/">>, common_pieces)
                 \o <<" ", "f", "r", "o", "m", " ">>
                 \o Join(<<"/">>, from_pieces)
                 \o <<" ", "t", "o", " ">>
                 \o Join(<<"/">>, to_pieces) \o <<")">>]

\* 'Week %d %s' % (i + 1, week), i + 1 being given as number.
WeekName(number, label) ==
    <<"W", "e", "e", "k", " ">> \o Str(number) \o <<" ">> \o label

(***************************************************************************)
(* Aggregation (lines 180-187) and report rows (lines 196-201)             *)
(***************************************************************************)
\* Week.__eq__
WeekEq(a, b) == WeekIdentifierOf(a) = WeekIdentifierOf(b)

UserIndex(d, u) ==
    IF \E i \in 1..Len(d) : UserEq(d[i].key, u)
    THEN CHOOSE i \in 1..Len(d) : UserEq(d[i].key, u)
    ELSE 0

WeekIndex(d, w) ==
    IF \E i \in 1..Len(d) : WeekEq(d[i].key, w)
    THEN CHOOSE i \in 1..Len(d) : WeekEq(d[i].key, w)
    ELSE 0

\* week_to_count.setdefault(week, Counter()).increment()
IncrementWeek(week_to_count, week) ==
    LET j == WeekIndex(week_to_count, week) IN
    IF j = 0 THEN Append(week_to_count, [key |-> week, value |-> 1])
    ELSE [week_to_count EXCEPT ![j].value = @ + 1]

\* user_to_week_to_count.setdefault(user, {}).setdefault(week, Counter()).increment()
Increment(u2w, user, week) ==
    LET i == UserIndex(u2w, user) IN
    IF i = 0
    THEN Append(u2w, [key |-> user, value |-> IncrementWeek(<<>>, week)])
    ELSE [u2w EXCEPT ![i].value = IncrementWeek(@, week)]

RECURSIVE IncrementAll(_, _, _)
\* The loop of line 186 over the users of one day, in the order given.
IncrementAll(u2w, users, week) ==
    IF users = <<>> THEN u2w
    ELSE IncrementAll(Increment(u2w, Head(users), week), Tail(users), week)

\* The orders in which a set can be iterated.
Orders(S) ==
    {f \in [1..Cardinality(S) -> S] :
        \A a, b \in 1..Cardinality(S) : f[a] = f[b] => a = b}

RECURSIVE InsertItem(_, _)
InsertItem(s, it) ==
    IF s = <<>> THEN <<it>>
    ELSE IF UserLt(it.key, Head(s).key) THEN <<it>> \o s
    ELSE <<Head(s)>> \o InsertItem(Tail(s), it)

RECURSIVE SortedItems(_)
\* sorted(user_to_week_to_count.items()): the keys are pairwise unequal, so
\* the tuples are ordered by User.__lt__ alone.
SortedItems(s) ==
    IF s = <<>> THEN <<>>
    ELSE InsertItem(SortedItems(SubSeq(s, 1, Len(s) - 1)), s[Len(s)])

\* week_to_count.get(week, Counter()).count
CountOf(week_to_count, week) ==
    LET j == WeekIndex(week_to_count, week) IN
    IF j = 0 THEN 0 ELSE week_to_count[j].value

\* The cells of lines 198-199 with the weeks that have no counter left out.
CountCellsPresentOnly(week_to_count, weeks) ==
    LET present == SelectSeq(weeks, LAMBDA w : WeekIndex(week_to_count, w) # 0)
    IN  [k \in 1..Len(present) |-> Str(CountOf(week_to_count, present[k]))]

\* The cells appended by the loop of lines 198-199.
CountCells(week_to_count, weeks) ==
    [k \in 1..Len(weeks) |-> Str(CountOf(week_to_count, weeks[k]))]

\* The list built at lines 197-199 for one item.
RowCells(item, weeks) ==
    <<item.key.name, Str(item.key.group)>> \o CountCells(item.value, weeks)

(***************************************************************************)
(* Input files                                                             *)
(***************************************************************************)
Separators == {<<",">>, <<";">>}

Pad2(n) == <<DigitChar(n \div 10), DigitChar(n % 10)>>

\* The text YYYY-MM-DD HH:MM of a timestamp.
TimestampText(y, m, d, h, mi) ==
    StrNat(y) \o <<"-">> \o Pad2(m) \o <<"-">> \o Pad2(d) \o <<" ">>
    \o Pad2(h) \o <<":">> \o Pad2(mi)

\* Friday and Sunday of ISO week 52 of 2022, Monday of week 1 of 2023,
\* Monday 2024-12-30 of week 1 of 2025, and a day that does not exist.
Moments ==
    { <<2022, 12, 30, 8, 0>>, <<2022, 12, 30, 17, 30>>, <<2023, 1, 1, 8, 0>>,
      <<2023, 1, 2, 8, 0>>, <<2024, 12, 30, 8, 0>>, <<2023, 2, 30, 8, 0>> }

Timestamps == {TimestampText(t[1], t[2], t[3], t[4], t[5]) : t \in Moments}

\* "B#2", "a#10", "a #10" and "a#2"
Descriptors ==
    { <<"B", "#", "2">>, <<"a", "#", "1", "0">>,
      <<"a", " ", "#", "1", "0">>, <<"a", "#", "2">> }

\* A line of the log written with separator sep: eight fields, the
\* timestamp at index 1 and the descriptor at index 7.
LogFields(ts, desc) == <<<<"x">>, ts, <<"x">>, <<"x">>, <<"x">>, <<"x">>, <<"x">>, desc>>

LogLine(sep, ts, desc) == Join(sep, LogFields(ts, desc)) \o <<"\n">>

DataLines(sep) == {LogLine(sep, ts, desc) : ts \in Timestamps, desc \in Descriptors}

HeaderLine(sep) == Join(sep, [i \in 1..8 |-> <<"x">>]) \o <<"\n">>

Files(sep) ==
    {<<>>} \cup
    {<<HeaderLine(sep)>> \o lines :
        lines \in UNION {[1..n -> DataLines(sep)] : n \in 0..MaxLines}}

(***************************************************************************)
(* main()                                                                  *)
(***************************************************************************)
MainIdle ==
    /\ separator = <<",">> /\ file = <<>> /\ pc = "idle"
    /\ line_number = <<>> /\ columns = <<>> /\ week_set = <<>>
    /\ headers = <<>> /\ user_to_week_to_count = <<>>
    /\ agg = [weeks |-> <<>>, i |-> 0, j |-> 0, items |-> <<>>, r |-> 0]
    /\ out_opened = FALSE /\ output = <<>>

ParseIdle == description_2 = <<>> /\ parse_result = <<>>

LabelIdle == label_week = Week(0, 0) /\ label_text = <<>>

\* After argument parsing and week_set = WeekSet() (lines 159-160).
Init ==
    /\ separator \in Separators
    /\ file \in Files(separator)
    /\ pc = "start"
    /\ line_number = <<>> /\ columns = <<>> /\ week_set = <<>>
    /\ headers = <<>> /\ user_to_week_to_count = <<>>
    /\ agg = [weeks |-> <<>>, i |-> 0, j |-> 0, items |-> <<>>, r |-> 0]
    /\ out_opened = FALSE /\ output = <<>>
    /\ ParseIdle /\ LabelIdle

\* Lines 164-166: next(line_iterator) raises StopIteration on an empty file.
SkipHeader ==
    /\ pc = "start"
    /\ pc' = IF file = <<>> THEN "aborted" ELSE "read"
    /\ UNCHANGED <<separator, file, line_number, columns, week_set, headers,
                   user_to_week_to_count, agg, out_opened, output>>
    /\ UNCHANGED <<parseVars, labelVars>>

\* Number of data lines the reading loop has taken from the file.
LinesTaken == IF line_number = <<>> THEN 0 ELSE line_number[1] + 1

\* The separator the configuration asks for.
ConfiguredSeparator(sep) == sep[1]

\* The separator line 169 splits with.
SplitSeparator(sep) == ","

\* Lines 169-173 raise nothing on this line.
LineAccepted(line) ==
    LET cols == Split(line, SplitSeparator(separator)) IN
    /\ Len(cols) >= 8
    /\ FromIsoFormat(Strip(cols[2])).raised = "none"
    /\ parse_name_and_group(Strip(cols[8])).raised = "none"

\* The date and the user that lines 170-172 build from columns, n being
\* line_number.
DateOfColumns(cols) == FromIsoFormat(Strip(cols[2])).val

UserOfColumns(cols, n) ==
    LET p == parse_name_and_group(Strip(cols[8])) IN User(p.name, p.group, n)

\* A line that raises is passed over and the loop goes on.
PcAfterLineSkipping(accepted) == "read"

\* An exception raised in the loop body is not caught: it ends the run.
PcAfterLine(accepted) == IF accepted THEN "read" ELSE "aborted"

\* One turn of the loop of lines 168-175; an exception ends the run.
ReadLine ==
    /\ pc = "read"
    /\ LinesTaken + 1 < Len(file)
    /\ LET n == LinesTaken
           line == file[n + 2]
           cols == Split(line, SplitSeparator(separator))
       IN  /\ line_number' = <<n>>
           /\ columns' = cols
           /\ IF LineAccepted(line)
              THEN week_set' = add_passage(week_set, DateOfColumns(cols),
                                           UserOfColumns(cols, n))
              ELSE week_set' = week_set
           /\ pc' = PcAfterLine(LineAccepted(line))
    /\ UNCHANGED <<separator, file, headers, user_to_week_to_count, agg,
                   out_opened, output>>
    /\ UNCHANGED <<parseVars, labelVars>>

\* Lines 176-182: the end of the reading loop.  line_number is unbound when
\* the file has no data line, and line 176 then raises NameError.
FinishRead ==
    /\ pc = "read"
    /\ LinesTaken + 1 = Len(file)
    /\ IF line_number = <<>>
       THEN /\ pc' = "aborted"
            /\ UNCHANGED <<headers, user_to_week_to_count, agg>>
       ELSE /\ pc' = "count"
            /\ headers' = << <<"N", "a", "m", "e">>, <<"G", "r", "o", "u", "p">> >>
            /\ user_to_week_to_count' = <<>>
            /\ agg' = [agg EXCEPT !.weeks = WeekSetIter(week_set),
                                  !.i = 0, !.j = 0]
    /\ UNCHANGED <<separator, file, line_number, columns, week_set,
                   out_opened, output>>
    /\ UNCHANGED <<parseVars, labelVars>>

\* The week the aggregation loop is in has no day left (or no week is
\* entered yet).
WeekExhausted ==
    IF agg.i = 0 THEN TRUE
    ELSE agg.j = Len(agg.weeks[agg.i].daily_presences)

\* Lines 182-184: the outer loop takes the next week and names its column.
NextWeek ==
    /\ pc = "count"
    /\ WeekExhausted
    /\ agg.i < Len(agg.weeks)
    /\ LET week == agg.weeks[agg.i + 1]
           label == WeekStr(week)
       IN  IF label.raised = "none"
           THEN /\ headers' = Append(headers, WeekName(agg.i + 1, label.val))
                /\ agg' = [agg EXCEPT !.i = @ + 1, !.j = 0]
                /\ pc' = "count"
           ELSE /\ pc' = "aborted"
                /\ UNCHANGED <<headers, agg>>
    /\ UNCHANGED <<separator, file, line_number, columns, week_set,
                   user_to_week_to_count, out_opened, output>>
    /\ UNCHANGED <<parseVars, labelVars>>

\* Lines 185-187: the users of the next day of the current week, the set
\* being iterated in any order.
CountDay ==
    /\ pc = "count"
    /\ agg.i >= 1
    /\ ~WeekExhausted
    /\ LET week == agg.weeks[agg.i]
           users == week.daily_presences[agg.j + 1].value
       IN  \E order \in Orders(users) :
               user_to_week_to_count' =
                   IncrementAll(user_to_week_to_count, order, week)
    /\ agg' = [agg EXCEPT !.j = @ + 1]
    /\ UNCHANGED <<separator, file, pc, line_number, columns, week_set,
                   headers, out_opened, output>>
    /\ UNCHANGED <<parseVars, labelVars>>

\* Lines 189-196: the output file is opened, the headers are written and
\* the loop over the sorted items starts.
WriteHeaders ==
    /\ pc = "count"
    /\ WeekExhausted
    /\ agg.i = Len(agg.weeks)
    /\ out_opened' = TRUE
    /\ output' = <<Join(separator, headers)>>
    /\ agg' = [agg EXCEPT !.items = SortedItems(user_to_week_to_count),
                          !.r = 0]
    /\ pc' = "write"
    /\ UNCHANGED <<separator, file, line_number, columns, week_set, headers,
                   user_to_week_to_count>>
    /\ UNCHANGED <<parseVars, labelVars>>

\* Lines 197-201: one line for the next user.
WriteRow ==
    /\ pc = "write"
    /\ agg.r < Len(agg.items)
    /\ output' = Append(output,
                        Join(separator,
                             RowCells(agg.items[agg.r + 1],
                                      WeekSetIter(week_set))))
    /\ agg' = [agg EXCEPT !.r = @ + 1]
    /\ UNCHANGED <<separator, file, pc, line_number, columns, week_set,
                   headers, user_to_week_to_count, out_opened>>
    /\ UNCHANGED <<parseVars, labelVars>>

\* The loop of line 196 ends and the output file is closed.
Finish ==
    /\ pc = "write"
    /\ agg.r = Len(agg.items)
    /\ pc' = "done"
    /\ UNCHANGED <<separator, file, line_number, columns, week_set, headers,
                   user_to_week_to_count, agg, out_opened, output>>
    /\ UNCHANGED <<parseVars, labelVars>>

Next ==
    \/ SkipHeader
    \/ ReadLine
    \/ FinishRead
    \/ NextWeek
    \/ CountDay
    \/ WriteHeaders
    \/ WriteRow
    \/ Finish

Spec == Init /\ [][Next]_vars

(***************************************************************************)
(* Reference notions the properties are stated with.  They are written     *)
(* from the definitions of the calendar and of the report, not from the    *)
(* program.                                                                *)
(***************************************************************************)
\* Julian day number of a calendar day; it is 0 modulo 7 on Mondays.
RefDayNumber(y, m, d) ==
    LET a == (14 - m) \div 12
        yy == y + 4800 - a
        mm == m + 12 * a - 3
    IN  d + (153 * mm + 2) \div 5 + 365 * yy + yy \div 4 - yy \div 100
        + yy \div 400 - 32045

\* ISO 8601: a week belongs to the year that holds its Thursday, and is
\* numbered by the rank of that Thursday in the year.
RefIsoWeek(y, m, d) ==
    LET n == RefDayNumber(y, m, d)
        thursday == n - (n % 7) + 3
        isoYear == CHOOSE yr \in {y - 1, y, y + 1} :
                       /\ RefDayNumber(yr, 1, 1) <= thursday
                       /\ thursday <= RefDayNumber(yr, 12, 31)
    IN  <<isoYear, (thursday - RefDayNumber(isoYear, 1, 1)) \div 7 + 1>>

RefIsSpace(c) == c \in Whitespace

\* A text without its leading and trailing whitespace.
RefTrim(s) ==
    LET solid == {i \in 1..Len(s) : ~RefIsSpace(s[i])} IN
    IF solid = {} THEN <<>>
    ELSE LET first == CHOOSE i \in solid : \A j \in solid : i <= j
             last == CHOOSE i \in solid : \A j \in solid : j <= i
         IN  [k \in 1..(last - first + 1) |-> s[first + k - 1]]

\* The texts that denote an integer: an optional sign, then digits that
\* single underscores may separate.
RefIsInteger(t) ==
    /\ t # <<>>
    /\ LET start == IF t[1] \in {"+", "-"} THEN 2 ELSE 1 IN
       /\ start <= Len(t)
       /\ t[start] \in DigitChars
       /\ t[Len(t)] \in DigitChars
       /\ \A i \in start..Len(t) : t[i] \in DigitChars \cup {"_"}
       /\ \A i \in start..(Len(t) - 1) : ~(t[i] = "_" /\ t[i + 1] = "_")

RECURSIVE RefPow10(_)
RefPow10(n) == IF n = 0 THEN 1 ELSE 10 * RefPow10(n - 1)

RECURSIVE RefSum(_, _)
RefSum(f, S) ==
    IF S = {} THEN 0
    ELSE LET x == CHOOSE x \in S : TRUE IN f[x] + RefSum(f, S \ {x})

\* The integer a text of RefIsInteger denotes.
RefIntegerValue(t) ==
    LET places == {i \in 1..Len(t) : t[i] \in DigitChars}
        weight == [i \in places |->
                     DigitVal(t[i]) *
                     RefPow10(Cardinality({j \in places : j > i}))]
        magnitude == RefSum(weight, places)
    IN  IF t[1] = "-" THEN 0 - magnitude ELSE magnitude

\* Section 4.1 of the specification: the (name, group) of a descriptor.
RefIdentity(d) ==
    LET sharps == {i \in 1..Len(d) : d[i] = "#"} IN
    IF sharps = {} THEN <<d, -1>>
    ELSE LET last == CHOOSE i \in sharps : \A j \in sharps : j <= i IN
         IF last = 1 \/ last = Len(d) THEN <<d, -1>>
         ELSE LET before == RefTrim([k \in 1..(last - 1) |-> d[k]])
                  after == RefTrim([k \in 1..(Len(d) - last) |-> d[last + k]])
              IN  <<before, IF RefIsInteger(after)
                            THEN RefIntegerValue(after) ELSE -1>>

\* A text is smaller than another when it is a proper prefix of it or has
\* the smaller code point at the first place where they differ.
RefTextLess(a, b) ==
    \E k \in 1..Len(b) :
        /\ \A j \in 1..(k - 1) : j <= Len(a) /\ a[j] = b[j]
        /\ (k > Len(a) \/ (a[k] # b[k] /\ Ord(a[k]) < Ord(b[k])))

\* (name, group) pairs: by name, then by group as a number.
RefIdLess(a, b) ==
    \/ RefTextLess(a[1], b[1])
    \/ a[1] = b[1] /\ a[2] < b[2]

\* (year, week number) pairs in chronological order.
RefWeekLess(a, b) == a[1] < b[1] \/ (a[1] = b[1] /\ a[2] < b[2])

\* Calendar days as <<year, month, day>>, in chronological order.
RefDayLess(a, b) ==
    \/ a[1] < b[1]
    \/ a[1] = b[1] /\ a[2] < b[2]
    \/ a[1] = b[1] /\ a[2] = b[2] /\ a[3] < b[3]

\* The elements of a set of identities, of weeks or of days in ascending
\* order: an element stands after as many elements as are smaller.
RefIdsAscending(S) ==
    [k \in 1..Cardinality(S) |->
        CHOOSE x \in S : Cardinality({y \in S : RefIdLess(y, x)}) = k - 1]

RefWeeksAscending(S) ==
    [k \in 1..Cardinality(S) |->
        CHOOSE x \in S : Cardinality({y \in S : RefWeekLess(y, x)}) = k - 1]

RefEarliest(S) == CHOOSE x \in S : \A y \in S : ~RefDayLess(y, x)
RefLatest(S) == CHOOSE x \in S : \A y \in S : ~RefDayLess(x, y)

RefSlashed(nums) == Join(<<"/">>, [i \in 1..Len(nums) |-> Str(nums[i])])

\* Section 4.3 of the specification: the label of a set of observed days.
\* From the first field on which the earliest and latest day differ, every
\* field goes to the 'from' and 'to' parts.
RefWeekLabel(days) ==
    IF Cardinality(days) = 1
    THEN <<"(", "o", "n", "l", "y", " ">>
         \o RefSlashed(CHOOSE x \in days : TRUE) \o <<")">>
    ELSE LET lo == RefEarliest(days)
             hi == RefLatest(days)
             first == CHOOSE k \in 1..3 :
                          lo[k] # hi[k] /\ \A j \in 1..(k - 1) : lo[j] = hi[j]
         IN  <<"(">> \o RefSlashed(SubSeq(lo, 1, first - 1))
             \o <<" ", "f", "r", "o", "m", " ">>
             \o RefSlashed(SubSeq(lo, first, 3))
             \o <<" ", "t", "o", " ">>
             \o RefSlashed(SubSeq(hi, first, 3)) \o <<")">>

\* The timestamp and the descriptor a data line was written with.
RefFieldsOf(line) ==
    CHOOSE f \in Timestamps \X Descriptors :
        line = LogLine(separator, f[1], f[2])

\* The timestamp that names no calendar day.
RefBadTimestamps == {TimestampText(2023, 2, 30, 8, 0)}

RefBadLine(line) == RefFieldsOf(line)[1] \in RefBadTimestamps

\* The calendar day of a timestamp text YYYY-MM-DD HH:MM.
RefDayOf(ts) ==
    LET t == CHOOSE t \in Moments :
                 ts = TimestampText(t[1], t[2], t[3], t[4], t[5])
    IN  <<t[1], t[2], t[3]>>

\* The passage a data line records: a calendar day and an identity.
RefRecordOf(line) ==
    [day |-> RefDayOf(RefFieldsOf(line)[1]),
     id |-> RefIdentity(RefFieldsOf(line)[2])]

\* The records of the data lines of the file, all consumed once the
\* reading loop has ended normally.
RefRecords == {RefRecordOf(file[k]) : k \in 2..Len(file)}

RefWeekOfDay(day) == RefIsoWeek(day[1], day[2], day[3])

\* The days of a week on which an identity was recorded.
RefDays(records, id, wk) ==
    {r.day : r \in {q \in records : q.id = id /\ RefWeekOfDay(q.day) = wk}}

\* The days of a week on which anybody was recorded.
RefWeekDays(records, wk) ==
    {r.day : r \in {q \in records : RefWeekOfDay(q.day) = wk}}

(***************************************************************************)
(* Properties of main()                                                    *)
(***************************************************************************)
\* The aggregation loop of lines 182-187 has run to its end.
Aggregated == pc \in {"write", "done"}

\* The places of the counters, and the counters as (identity, week, count)
\* triples.
CounterPlaces ==
    {<<i, j>> \in (1..Len(user_to_week_to_count)) \X (1..Len(week_set)) :
        j <= Len(user_to_week_to_count[i].value)}

CounterTriples ==
    {<<UserIdentifier(user_to_week_to_count[p[1]].key),
       WeekIdentifierOf(user_to_week_to_count[p[1]].value[p[2]].key),
       user_to_week_to_count[p[1]].value[p[2]].value>> : p \in CounterPlaces}

\* C1: once the aggregation loop has run, the counter of a (user, week)
\* pair is the number of distinct days of that ISO week on which a consumed
\* record has that user, and a pair without such a day has no counter.
C1_CountIsDistinctDays ==
    Aggregated =>
        LET records == RefRecords
            ids == {r.id : r \in records}
            weeks == {RefWeekOfDay(r.day) : r \in records}
            triples == CounterTriples
        IN  /\ triples =
                  {<<p[1], p[2], Cardinality(RefDays(records, p[1], p[2]))>> :
                      p \in {q \in ids \X weeks :
                                RefDays(records, q[1], q[2]) # {}}}
            /\ Cardinality(CounterPlaces) = Cardinality(triples)

\* Two different lines record the same user on the same day, and the
\* counter is 1.
C1_Witness ==
    /\ Aggregated
    /\ Len(file) = 3
    /\ \E t \in CounterTriples : t[3] = 1
    /\ \E k1, k2 \in 2..Len(file) :
          /\ file[k1] # file[k2]
          /\ RefRecordOf(file[k1]) = RefRecordOf(file[k2])

\* The report section 4.5 of the specification describes for a set of
\* records: it depends on the set alone, not on the order of the lines.
RefReport(records) ==
    LET weeks == RefWeeksAscending({RefWeekOfDay(r.day) : r \in records})
        ids == RefIdsAscending({r.id : r \in records})
        head == << <<"N", "a", "m", "e">>, <<"G", "r", "o", "u", "p">> >>
                \o [k \in 1..Len(weeks) |->
                       <<"W", "e", "e", "k", " ">> \o Str(k) \o <<" ">>
                       \o RefWeekLabel(RefWeekDays(records, weeks[k]))]
        row(id) == <<id[1], Str(id[2])>>
                   \o [k \in 1..Len(weeks) |->
                          Str(Cardinality(RefDays(records, id, weeks[k])))]
    IN  <<Join(separator, head)>>
        \o [n \in 1..Len(ids) |-> Join(separator, row(ids[n]))]

\* C2: the report written is determined by the set of records of the file:
\* two files whose lines are permutations of each other give the same
\* header labels, rows and cells in the same order.
C2_ReportIgnoresOrder ==
    pc = "done" => output = RefReport(RefRecords)

\* A file whose lines come neither in the order of the weeks nor in the
\* order of the users.
C2_Witness ==
    /\ pc = "done"
    /\ Len(file) = 3
    /\ RefWeekLess(RefWeekOfDay(RefRecordOf(file[3]).day),
                   RefWeekOfDay(RefRecordOf(file[2]).day))
    /\ RefIdLess(RefRecordOf(file[3]).id, RefRecordOf(file[2]).id)

KeyDay(date) == <<date.year, date.month, date.day>>

\* C3: a Week is stored under its own (year, number), every day it holds
\* is a calendar day of that ISO week, and every timestamp filed is held by
\* the Week of its ISO year and week number.
C3_DaysInTheirIsoWeek ==
    /\ \A i \in 1..Len(week_set) :
          /\ week_set[i].key = WeekIdentifierOf(week_set[i].value)
          /\ \A e \in 1..Len(week_set) : week_set[e].key = week_set[i].key => e = i
          /\ \A d \in DictKeys(week_set[i].value.daily_presences) :
                /\ d.hour = 0 /\ d.minute = 0
                /\ RefWeekOfDay(KeyDay(d)) = week_set[i].key
    /\ pc = "read" =>
          \A k \in 2..(LinesTaken + 1) :
              \E i \in 1..Len(week_set) :
                  /\ week_set[i].key = RefWeekOfDay(RefRecordOf(file[k]).day)
                  /\ \E d \in DictKeys(week_set[i].value.daily_presences) :
                        KeyDay(d) = RefRecordOf(file[k]).day
    /\ \A i \in 1..Len(week_set) :
          week_set[i].key = <<2023, 1>> =>
              \A d \in DictKeys(week_set[i].value.daily_presences) :
                  KeyDay(d) # <<2023, 1, 1>>

\* 2023-01-01 is held by week (2022, 52) and 2024-12-30 by week (2025, 1).
C3_Witness ==
    /\ \E i \in 1..Len(week_set) :
          /\ week_set[i].key = <<2022, 52>>
          /\ \E d \in DictKeys(week_set[i].value.daily_presences) :
                KeyDay(d) = <<2023, 1, 1>>
    /\ \E i \in 1..Len(week_set) :
          /\ week_set[i].key = <<2025, 1>>
          /\ \E d \in DictKeys(week_set[i].value.daily_presences) :
                KeyDay(d) = <<2024, 12, 30>>

\* The (day, identity) pair of a record is held by the week set.
Recorded(weeks, rec) ==
    \E i \in 1..Len(weeks) :
        \E e \in 1..Len(weeks[i].value.daily_presences) :
            /\ KeyDay(weeks[i].value.daily_presences[e].key) = rec.day
            /\ \E u \in weeks[i].value.daily_presences[e].value :
                  UserIdentifier(u) = rec.id

\* C4: add_passage for a (day, user) pair that is already recorded leaves
\* the whole week set as it is, whatever the time of day and whichever
\* User object carries the identity.
C4_AddPassageIdempotent ==
    [][(/\ pc = "read" /\ pc' = "read"
        /\ LinesTaken' = LinesTaken + 1
        /\ Recorded(week_set, RefRecordOf(file[LinesTaken + 2])))
       => week_set' = week_set]_vars

\* Two different lines of the same day and identity have been read: another
\* time of day, or another text of the same identity.
C4_Witness ==
    /\ pc = "read"
    /\ LinesTaken = 2
    /\ file[2] # file[3]
    /\ RefRecordOf(file[2]) = RefRecordOf(file[3])
    /\ RefFieldsOf(file[2])[2] # RefFieldsOf(file[3])[2]
    /\ Len(week_set) = 1

\* The cells of a written line, and the cells of the data rows.
CellsOf(text) == Split(text, ConfiguredSeparator(separator))

Rows == [k \in 1..(Len(output) - 1) |-> CellsOf(output[k + 1])]

\* The identity a row shows in its first two cells.
RowId(cells) == <<cells[1], RefIntegerValue(cells[2])>>

\* The identities held by some day of some Week.
PresentIds ==
    UNION {UNION {{UserIdentifier(u) :
                      u \in week_set[i].value.daily_presences[e].value} :
                  e \in 1..Len(week_set[i].value.daily_presences)} :
           i \in 1..Len(week_set)}

\* C7: the data rows are the identities recorded in some Week, each once,
\* in strictly ascending order of (name, group): names by code point,
\* groups as numbers.
C7_RowsAreSortedUsers ==
    pc = "done" =>
        LET rows == Rows
            ids == [k \in 1..Len(rows) |-> RowId(rows[k])]
        IN  /\ {ids[k] : k \in 1..Len(rows)} = PresentIds
            /\ Len(rows) = Cardinality(PresentIds)
            /\ \A k \in 1..(Len(rows) - 1) : RefIdLess(ids[k], ids[k + 1])

\* Group 10 was read before group 2 of the same name and is written after.
C7_Witness ==
    /\ pc = "done"
    /\ Len(output) = 3
    /\ RefRecordOf(file[2]).id = <<<<"a">>, 10>>
    /\ RowId(Rows[1]) = <<<<"a">>, 2>>
    /\ RowId(Rows[2]) = <<<<"a">>, 10>>

\* The counter of an (identity, week) pair, 0 when there is none.
AggregatedCount(id, wk) ==
    LET hits == {t \in CounterTriples : t[1] = id /\ t[2] = wk} IN
    IF hits = {} THEN 0 ELSE (CHOOSE t \in hits : TRUE)[3]

\* The Week stored under an identifier.
WeekAt(wk) == week_set[CHOOSE i \in 1..Len(week_set) : week_set[i].key = wk].value

\* C8: every row has 2 + N cells, N being the number of Weeks, and its
\* cell 2 + k is the count of its user for the k-th Week in ascending
\* order, the Week the header cell 2 + k names 'Week k', or 0.
C8_RowCellsFollowWeeks ==
    pc = "done" =>
        LET weeks == RefWeeksAscending({week_set[i].key : i \in 1..Len(week_set)})
            N == Len(week_set)
            head == CellsOf(output[1])
            rows == Rows
        IN  /\ Len(head) = 2 + N
            /\ \A k \in 1..N :
                  head[2 + k] = WeekName(k, WeekStr(WeekAt(weeks[k])).val)
            /\ \A r \in 1..Len(rows) :
                  /\ Len(rows[r]) = 2 + N
                  /\ \A k \in 1..N :
                        rows[r][2 + k] =
                            Str(AggregatedCount(RowId(rows[r]), weeks[k]))

\* Two weeks, and a user who is absent from the first and present in the
\* second.
C8_Witness ==
    /\ pc = "done"
    /\ Len(week_set) = 2
    /\ \E r \in 1..Len(Rows) :
          /\ Len(Rows[r]) = 4
          /\ Rows[r][3] = <<"0">>
          /\ Rows[r][4] = <<"1">>

\* C9: nothing is written before the last line is consumed; a line whose
\* timestamp does not parse is the last line taken, the run ends there and
\* the output stays unwritten.
C9_NoOutputBeforeAllRead ==
    /\ (out_opened \/ output # <<>>) =>
          /\ LinesTaken = Len(file) - 1
          /\ \A k \in 2..Len(file) : ~RefBadLine(file[k])
    /\ \A k \in 2..Len(file) :
          RefBadLine(file[k]) =>
              /\ LinesTaken <= k - 1
              /\ ~out_opened /\ output = <<>>
              /\ pc \notin {"count", "write", "done"}
              /\ LinesTaken = k - 1 => pc = "aborted"

\* The second line has the timestamp that does not parse, a valid line was
\* filed before it, and the run has ended without output.
C9_Witness ==
    /\ pc = "aborted"
    /\ LinesTaken = 2
    /\ Len(week_set) = 1
    /\ ~RefBadLine(file[2])
    /\ RefBadLine(file[3])
    /\ ~out_opened /\ output = <<>>

\* C10: a line is split with the configured separator: the columns taken
\* from a line written with that separator hold its timestamp at index 1
\* and its descriptor at index 7.
C10_SplitWithSeparator ==
    columns # <<>> =>
        LET f == RefFieldsOf(file[LinesTaken + 1]) IN
        /\ Len(columns) >= 8
        /\ columns[2] = f[1]
        /\ Strip(columns[8]) = f[2]

(***************************************************************************)
(* parse_name_and_group on its own                                         *)
(***************************************************************************)
ParseAlphabet == {"a", " ", "#", "1", "2", "-", "_"}

Descriptions == UNION {[1..n -> ParseAlphabet] : n \in 0..MaxDescLen}

InitParse ==
    /\ MainIdle /\ LabelIdle
    /\ description_2 \in Descriptions
    /\ parse_result = <<>>

\* A call parse_name_and_group(description_2).
ParseCall ==
    /\ parse_result = <<>>
    /\ parse_result' = <<parse_name_and_group(description_2)>>
    /\ UNCHANGED <<description_2, mainVars, labelVars>>

NextParse == ParseCall

SpecParse == InitParse /\ [][NextParse]_vars

LabelDays ==
    { <<2022, 5, 3>>, <<2023, 5, 10>>, <<2023, 5, 1>>, <<2023, 5, 3>>,
      <<2022, 12, 30>>, <<2023, 1, 2>>, <<2023, 1, 1>>, <<2023, 6, 3>> }

DayDate(day) ==
    [year |-> day[1], month |-> day[2], day |-> day[3], hour |-> 0, minute |-> 0]

\* The Weeks that hold given days in a given order, built as add_passage
\* builds a Week but without its choice of the Week.
LabelWeeks ==
    {[year |-> IsoCalendar(DayDate(days[1]))[1],
      number |-> IsoCalendar(DayDate(days[1]))[2],
      daily_presences |->
          [k \in 1..Len(days) |->
              [key |-> DayDate(days[k]),
               value |-> {User(<<"a">>, 1, 0)}]]] :
        days \in {d \in UNION {[1..n -> LabelDays] : n \in 1..MaxLabelDays} :
                     \A a, b \in 1..Len(d) : d[a] = d[b] => a = b}}

InitLabel ==
    /\ MainIdle /\ ParseIdle
    /\ label_week \in LabelWeeks
    /\ label_text = <<>>

\* A call str(label_week).
LabelCall ==
    /\ label_text = <<>>
    /\ label_text' = <<WeekStr(label_week)>>
    /\ UNCHANGED <<label_week, mainVars, parseVars>>

NextLabel == LabelCall

SpecLabel == InitLabel /\ [][NextLabel]_vars

====
